---- MODULE Spec2Model ----
(***************************************************************************)
(* gitdiff-watcher: concurrent invocations of the orchestrator (cli.ts     *)
(* main) sharing one working tree, one state file and one lock marker.     *)
(* Every invocation is a process; the steps of a process are the points    *)
(* between two awaits of main / saveState / withFileLock / executeAll.     *)
(***************************************************************************)
EXTENDS Integers, Sequences, FiniteSets, TLC

(* ------------------------------ bounds --------------------------------- *)
NumProcs == 2
NumCmds == 2
MaxMods == 1
MaxCrashes == 1

(* ------------------------- program constants --------------------------- *)
(* variant: one retry too many *)
maxRetriesOneMore == 20 + 1
(* variant: half the retries *)
maxRetriesHalved == 20 \div 2
(* withFileLock line 10 *)
maxRetries == 20

(* ------------------------------ universe ------------------------------- *)
Procs == 1..NumProcs
Cmds == 1..NumCmds
Patterns == {"p1", "p2"}
PathSeq == <<"a", "b">>
Paths == {PathSeq[k] : k \in 1..Len(PathSeq)}
Hashes == {"h1", "h2"}
Shas == {"c1", "c2"}
NoHash == "nohash"
NoProc == 0
ExitCodes == {0, 1, 3}
Idle == -2
Running == -1

(* picomatch(args.on): which paths of the diff a pattern selects *)
isMatch(pattern, path) ==
    IF pattern = "p1" THEN TRUE ELSE path = "b"

HashMaps == [Paths -> Hashes \cup {NoHash}]
EmptyHashes == [p \in Paths |-> NoHash]
(* null / undefined where a PatternState is expected *)
NoSnap == [headSha |-> "null", fileHashes |-> EmptyHashes]
PatternState == [headSha : Shas, fileHashes : HashMaps]
EmptyStateFile == [q \in Patterns |-> NoSnap]

(* content of the state file on disk; obj is meaningful for kind "object" *)
MissingFile == [kind |-> "missing", obj |-> EmptyStateFile]
MalformedFile == [kind |-> "malformed", obj |-> EmptyStateFile]
ObjectFile(o) == [kind |-> "object", obj |-> o]
(* a file that exists and cannot be read; text that parses to null or to
   another value without properties of its own; text that parses to an array *)
UnreadableFile == [kind |-> "unreadable", obj |-> EmptyStateFile]
JsonNullFile == [kind |-> "jsonnull", obj |-> EmptyStateFile]
JsonArrayFile == [kind |-> "jsonarray", obj |-> EmptyStateFile]

(* ------------------------- state.ts: pure parts ------------------------ *)

(* property names every object inherits from Object.prototype, and the value
   a lookup of one of them gives when the object has no own property of that
   name (a function, which is neither null nor undefined) *)
ObjectPrototype == {"constructor"}
InheritedMember == [headSha |-> "function", fileHashes |-> EmptyHashes]

(* variant: own properties only, as Object.hasOwn(current, path) *)
hasOwnProperty(m, path) == m[path] # NoHash

(* path in m: own properties and inherited ones *)
hasProperty(m, path) == m[path] # NoHash \/ path \in ObjectPrototype

(* variant: the first loop without the comparison of the hashes *)
RECURSIVE ChangedSeqAll(_, _, _)
ChangedSeqAll(seq, previous, current) ==
    IF seq = <<>> THEN <<>>
    ELSE LET path == Head(seq)
             rest == ChangedSeqAll(Tail(seq), previous, current)
         IN IF current[path] # NoHash THEN <<path>> \o rest ELSE rest

(* findChangedFiles, first loop: entries of current that are new or differ *)
RECURSIVE ChangedSeq(_, _, _)
ChangedSeq(seq, previous, current) ==
    IF seq = <<>> THEN <<>>
    ELSE LET path == Head(seq)
             rest == ChangedSeq(Tail(seq), previous, current)
         IN IF current[path] # NoHash /\ previous[path] # current[path]
            THEN <<path>> \o rest ELSE rest

(* findChangedFiles, second loop: keys of previous absent from current *)
RECURSIVE RemovedSeq(_, _, _)
RemovedSeq(seq, previous, current) ==
    IF seq = <<>> THEN <<>>
    ELSE LET path == Head(seq)
             rest == RemovedSeq(Tail(seq), previous, current)
         IN IF previous[path] # NoHash /\ ~hasProperty(current, path)
            THEN <<path>> \o rest ELSE rest

(* findChangedFiles with the order in which the keys of the maps are visited *)
findChangedFilesIn(seq, previous, current) ==
    ChangedSeq(seq, previous, current) \o RemovedSeq(seq, previous, current)

findChangedFiles(previous, current) == findChangedFilesIn(PathSeq, previous, current)

(* variant: the lookup consults the own properties only *)
loadStateOwn(f, pattern) ==
    IF f.kind = "object" /\ pattern \in DOMAIN f.obj THEN f.obj[pattern] ELSE NoSnap

(* loadState: any error of readFileSync, of JSON.parse or of the lookup gives
   null (a file that cannot be read, text that is not JSON, JSON null); else
   stateFile[pattern] ?? null, a lookup on the parsed object or array *)
loadState(f, pattern) ==
    IF f.kind \in {"object", "jsonarray"}
    THEN IF pattern \in DOMAIN f.obj THEN f.obj[pattern]
         ELSE IF pattern \in ObjectPrototype THEN InheritedMember
         ELSE NoSnap
    ELSE NoSnap

(* variant: the save never reads what is on disk *)
readStateFileEmpty(f) == ObjectFile(EmptyStateFile)

(* saveState lines 90-97: the StateFile the save starts from *)
readStateFile(f) ==
    IF f.kind \in {"missing", "unreadable", "malformed"}
    THEN ObjectFile(EmptyStateFile) ELSE f

(* variant: the save writes its own pattern only *)
mergeStateFresh(stateFile, pattern, state) ==
    ObjectFile([EmptyStateFile EXCEPT ![pattern] = state])

(* saveState lines 99-100: assign the pattern, serialise *)
mergeState(stateFile, pattern, state) ==
    IF stateFile.kind = "object"
    THEN ObjectFile([stateFile.obj EXCEPT ![pattern] = state])
    ELSE stateFile

(* variant: the marker is opened with 'w', without the exclusive flag *)
markerExistsNoExcl(l) == FALSE

(* withFileLock line 16: open(lockPath, 'wx') fails with EEXIST when the marker exists *)
markerExists(l) == l # NoProc

(* variant: finally unlinks the marker whether or not fd is set *)
markerAfterFailedOpenUnlinked(l) == NoProc

(* withFileLock lines 30-35: the finally block unlinks only when fd is set, so a
   failed open leaves the marker of the holder in place *)
markerAfterFailedOpen(l) == l

(* variant: no finally block, an error of fn leaves withFileLock at once *)
onFnErrorNoFinally == "saved"

(* withFileLock lines 29-35: an error thrown by fn passes through finally *)
onFnError == "release"

(* variant: the marker is not removed when fn returns, saveState settles with
   the marker still on disk *)
onFnReturnKeepsMarker == "saved"

(* withFileLock lines 17 and 30-35: return await fn() passes through finally *)
onFnReturn == "release"

(* variant: no first-run case, a missing snapshot is diffed as an empty one *)
isFirstRunNever(previousState) == FALSE

(* variant: a snapshot without any file is taken for no snapshot *)
isFirstRunWhenEmpty(previousState) ==
    previousState = NoSnap \/ previousState.fileHashes = EmptyHashes

(* main line 75: if (!previousState) *)
isFirstRun(previousState) == previousState = NoSnap

(* variant: the state is saved only when the diff is not empty *)
afterDiffSaveOnChange(changedFiles) == IF Len(changedFiles) = 0 THEN "done" ELSE "open"

(* main lines 85-88: after the diff the state is always saved *)
afterDiff(changedFiles) == "open"

(* variant: the commands are run whether or not a file changed *)
noChangesNever(changedFiles) == FALSE

(* main line 90: if (changedFiles.length === 0) *)
noChanges(changedFiles) == Len(changedFiles) = 0

(* variant: only exit status 1 counts as a failure *)
failuresOnlyOne(results) == {c \in DOMAIN results : results[c] = 1}

(* main line 105: results.filter((r) => r.exitCode !== 0) *)
failures(results) == {c \in DOMAIN results : results[c] # 0}

(* computeHashes over the matching files of the diff *)
computeHashes(matching, t) ==
    [p \in Paths |-> IF p \in matching THEN t[p] ELSE NoHash]

(* variant: no try/catch around computeFileHash, a file that cannot be read
   rejects Promise.all *)
computeHashesSettlesNoCatch(matching, t) ==
    IF \E p \in matching : t[p] = NoHash THEN "rejected" ELSE "fulfilled"

(* computeHashes lines 54-60: the rejection of computeFileHash is caught per
   file and turned into null, so Promise.all fulfils *)
computeHashesSettles(matching, t) == "fulfilled"

(* ------------------------ executor.ts: pure parts ---------------------- *)

(* a command text is a sequence of tokens: a literal word, or a placeholder
   "{{text}}" *)
Lit(w) == [ph |-> FALSE, text |-> w]
Ph(key) == [ph |-> TRUE, text |-> key]
CommandTexts ==
    { <<Lit("test")>>,
      <<Lit("lint"), Ph("ON_CHANGES_RUN_CHANGED_FILES")>>,
      <<Lit("cmd"), Ph("UNKNOWN")>>,
      <<Lit("echo"), Ph("constructor")>> }

(* what main hands to executeAll as its third argument *)
EnvOf(changedFiles) ==
    [key \in {"ON_CHANGES_RUN_DIFF_FILES", "ON_CHANGES_RUN_CHANGED_FILES"} |-> changedFiles]

(* String(Object.prototype.constructor), what a placeholder is replaced by
   when vars[key] finds the inherited member *)
InheritedText == "function Object() { [native code] }"

(* command.replace(/\{\{(\w+)\}\}/g, (match, key) => vars[key] ?? match):
   vars[key] is the own property when there is one, else the member the
   object inherits under that name, else undefined *)
interpolateTemplate(command, tv) ==
    [k \in DOMAIN command |->
        IF command[k].ph /\ command[k].text \in DOMAIN tv
        THEN Lit(tv[command[k].text])
        ELSE IF command[k].ph /\ command[k].text \in ObjectPrototype
        THEN Lit(InheritedText)
        ELSE command[k]]

(* error.code of a child killed by a signal: null *)
NullCode == -10
(* error.code when the output exceeded maxBuffer: a string, not a number *)
ERR_CHILD_PROCESS_STDIO_MAXBUFFER == -11

(* error.code when the shell could not be spawned: the errno name, a string
   such as 'EAGAIN', 'ENOMEM' or 'E2BIG' *)
SpawnErrno == -12

(* how a child process can end: it exits, it is killed at the timeout, it is
   killed because its output exceeded maxBuffer, or it never starts because
   the spawn fails *)
ChildOutcomes ==
    {[kind |-> "exit", code |-> c, stdout |-> o, stderr |-> e] :
        c \in ExitCodes, o \in {"", "out"}, e \in {"", "err"}}
      \cup {[kind |-> "timeout", code |-> NullCode, stdout |-> o, stderr |-> ""] :
                o \in {"", "out"}}
      \cup {[kind |-> "maxbuffer", code |-> NullCode, stdout |-> "out", stderr |-> ""]}
      \cup {[kind |-> "spawnerr", code |-> SpawnErrno, stdout |-> "", stderr |-> ""]}
(* a child that outlived the kill signal of the timeout ends, if at all, by
   exiting or by exceeding maxBuffer *)
endsAfterSignal == {"exit", "maxbuffer"}
NoOutcome == [kind |-> "none", code |-> NullCode, stdout |-> "", stderr |-> ""]

(* the code property of the error execAsync rejects with *)
errCode(o) ==
    IF o.kind = "maxbuffer" THEN ERR_CHILD_PROCESS_STDIO_MAXBUFFER ELSE o.code

(* variant: the result carries the command as it was executed *)
commandResultInterpolated(command, tv, o) ==
    [command |-> interpolateTemplate(command, tv),
     exitCode |-> IF errCode(o) = NullCode THEN 1 ELSE errCode(o),
     stdout |-> o.stdout, stderr |-> o.stderr]

(* executeCommand lines 24-33: the CommandResult of a settled exec; a child
   that exits 0 resolves execAsync, every other outcome rejects it and the
   result takes err.code ?? 1 *)
commandResult(command, tv, o) ==
    IF o.kind = "exit" /\ o.code = 0
    THEN [command |-> command, exitCode |-> 0, stdout |-> o.stdout, stderr |-> o.stderr]
    ELSE [command |-> command,
          exitCode |-> IF errCode(o) = NullCode THEN 1 ELSE errCode(o),
          stdout |-> o.stdout, stderr |-> o.stderr]
NoResult == [command |-> <<>>, exitCode |-> NullCode, stdout |-> "", stderr |-> ""]

(* variant: no catch block, a rejection of execAsync rejects executeCommand *)
executeCommandSettlesNoCatch(o) ==
    IF o.kind = "exit" /\ o.code = 0 THEN "fulfilled" ELSE "rejected"

(* executeCommand lines 19-33: the await is inside try, and the catch block
   returns a result, so the promise fulfils whatever the outcome *)
executeCommandSettles(o) == "fulfilled"

(* variant: the values in the order in which the promises fulfilled *)
promiseAllAsSettled(vals, ord) == [k \in DOMAIN ord |-> vals[ord[k]]]

(* Promise.all: the values in the order of the promises, whatever the order
   ord in which they fulfilled *)
promiseAll(vals, ord) == vals

(* variant: every result is handed to printFailures *)
failedResultsAll(rs) == rs

(* main line 105 on the CommandResults *)
failedResults(rs) ==
    LET failed == failures([k \in DOMAIN rs |-> rs[k].exitCode])
        RECURSIVE from(_)
        from(k) == IF k > Len(rs) THEN <<>>
                   ELSE IF k \in failed THEN <<rs[k]>> \o from(k + 1) ELSE from(k + 1)
    IN from(1)

(* one write of printFailures to stderr *)
Header(command, exitCode) ==
    [kind |-> "header", command |-> command, exitCode |-> exitCode, text |-> ""]
Output(kind, text) ==
    [kind |-> kind, command |-> <<>>, exitCode |-> 0, text |-> text]

(* printFailures: per failure the header, then [stdout] and [stderr] when not empty *)
RECURSIVE printFailures(_)
printFailures(fs) ==
    IF fs = <<>> THEN <<>>
    ELSE LET f == Head(fs)
         IN <<Header(f.command, f.exitCode)>>
                \o (IF f.stdout # "" THEN <<Output("stdout", f.stdout)>> ELSE <<>>)
                \o (IF f.stderr # "" THEN <<Output("stderr", f.stderr)>> ELSE <<>>)
                \o printFailures(Tail(fs))

(* ------------------------------- state --------------------------------- *)
VARIABLES
    tree,        \* working tree: path -> content hash of a file in the git diff, or NoHash
    head,        \* HEAD commit
    mods,        \* number of modifications made by the environment so far
    file,        \* content of the state file
    lock,        \* creator of the lock marker, NoProc when the marker does not exist
    pat,         \* args.on of each invocation
    pc,          \* position of each invocation
    diffFiles,   \* main: diffFiles
    cur,         \* main: currentState
    prev,        \* main: previousState
    changed,     \* main: changedFiles
    attempt,     \* withFileLock: attempt (0 again once the loop is left)
    contended,   \* withFileLock: creator of the marker at the latest EEXIST, or NoProc
    toWrite,     \* saveState: stateFile after the assignment of the pattern
    saveRes,     \* outcome of saveState: "none", "ok" or the error thrown
    cmdRes,      \* executeAll: per command Idle, Running or its exit code
    exitCode,    \* process.exit status, -1 while running
    stderr,      \* the messages main has written to process.stderr, in order
    atLock,      \* history: state file content when the holder created the marker
    doneBefore   \* history: invocations that had exited or been killed when this one started

envVars == <<tree, head, mods>>
diskVars == <<file, lock>>
mainVars == <<diffFiles, cur, prev, changed, cmdRes, exitCode, stderr>>
saveVars == <<attempt, contended, toWrite, saveRes>>
histVars == <<atLock, doneBefore>>
invocationVars ==
    <<tree, head, mods, file, lock, pat, pc, diffFiles, cur, prev, changed,
      attempt, contended, toWrite, saveRes, cmdRes, exitCode, stderr, atLock,
      doneBefore>>

(* one call of executeAll and the report of its failures, in detail *)
VARIABLES
    commands,      \* executeAll: commands (args.exec), the texts as authored
    templateVars,  \* executeAll: templateVars
    execCalls,     \* the command strings handed to exec, in call order
    child,         \* per command: "none", "running", "signalled" or "settled"
    outcome,       \* per command: how its child process ended
    values,        \* Promise.all: the value each executeCommand promise fulfilled with
    order,         \* history: the commands in the order they settled
    results,       \* main: results, <<>> until executeAll has resolved
    report,        \* the writes of printFailures to stderr
    xpc,           \* position in main lines 99-112
    xstatus        \* process.exit status of this run, -1 while running

execVars ==
    <<commands, templateVars, execCalls, child, outcome, values, order, results,
      report, xpc, xstatus>>

(* one call of loadState on any content of the state file *)
VARIABLES
    ldFile,        \* content of the state file
    ldPattern,     \* loadState: pattern
    ldResult,      \* what loadState returned
    ldpc           \* "call", "returned", or "threw"

loadVars == <<ldFile, ldPattern, ldResult, ldpc>>

(* one call of findChangedFiles on any two maps *)
VARIABLES
    dfPrevious,    \* findChangedFiles: previous
    dfCurrent,     \* findChangedFiles: current
    dfOrder,       \* the order in which the keys are visited
    dfResult,      \* findChangedFiles: changed, as returned
    dfpc           \* "call" or "returned"

diffVars == <<dfPrevious, dfCurrent, dfOrder, dfResult, dfpc>>

(* the variables of the detailed views, which the invocations leave alone *)
sideVars == <<execVars, loadVars, diffVars>>
notExecVars == <<invocationVars, loadVars, diffVars>>
notLoadVars == <<invocationVars, execVars, diffVars>>
notDiffVars == <<invocationVars, execVars, loadVars>>

vars == <<invocationVars, sideVars>>

(* no call of executeAll is looked at in detail *)
ExecIdle ==
    /\ commands = <<>>
    /\ templateVars = EnvOf("")
    /\ execCalls = <<>>
    /\ child = <<>>
    /\ outcome = <<>>
    /\ values = <<>>
    /\ order = <<>>
    /\ results = <<>>
    /\ report = <<>>
    /\ xpc = "off"
    /\ xstatus = -1

(* no call of loadState is looked at in detail *)
LoadIdle ==
    /\ ldFile = MissingFile
    /\ ldPattern = "p1"
    /\ ldResult = NoSnap
    /\ ldpc = "off"

(* no call of findChangedFiles is looked at in detail *)
DiffIdle ==
    /\ dfPrevious = EmptyHashes
    /\ dfCurrent = EmptyHashes
    /\ dfOrder = PathSeq
    /\ dfResult = <<>>
    /\ dfpc = "off"

SideIdle == ExecIdle /\ LoadIdle /\ DiffIdle

BaseSnap == [headSha |-> "c1", fileHashes |-> [p \in Paths |-> IF p = "a" THEN "h1" ELSE NoHash]]

(* state files left by earlier runs: none, an interrupted write, or snapshots *)
InitFiles ==
    {MissingFile, MalformedFile}
        \cup {ObjectFile(o) : o \in [Patterns -> {NoSnap, BaseSnap}]}

(* the invocations about to start, the state file holding one of files *)
InitWith(files) ==
    /\ tree = [p \in Paths |-> IF p = "a" THEN "h1" ELSE NoHash]
    /\ head = "c2"
    /\ mods = 0
    /\ file \in files
    /\ lock = NoProc
    /\ pat \in [Procs -> Patterns]
    /\ pc = [i \in Procs |-> "idle"]
    /\ diffFiles = [i \in Procs |-> {}]
    /\ cur = [i \in Procs |-> [headSha |-> "c2", fileHashes |-> EmptyHashes]]
    /\ prev = [i \in Procs |-> NoSnap]
    /\ changed = [i \in Procs |-> <<>>]
    /\ attempt = [i \in Procs |-> 0]
    /\ contended = [i \in Procs |-> NoProc]
    /\ toWrite = [i \in Procs |-> MissingFile]
    /\ saveRes = [i \in Procs |-> "none"]
    /\ cmdRes = [i \in Procs |-> [c \in Cmds |-> Idle]]
    /\ exitCode = [i \in Procs |-> -1]
    /\ stderr = [i \in Procs |-> <<>>]
    /\ atLock = MissingFile
    /\ doneBefore = [i \in Procs |-> {}]
    /\ SideIdle

Init == InitWith(InitFiles)

(* --------------------------- the environment --------------------------- *)

(* a file of the working tree is edited, added to or removed from the diff;
   a modification that no invocation is left to read changes no behaviour *)
ModifyFile(path, h) ==
    /\ mods < MaxMods
    /\ \E i \in Procs : pc[i] \in {"idle", "hash"}
    /\ h # tree[path]
    /\ tree' = [tree EXCEPT ![path] = h]
    /\ mods' = mods + 1
    /\ UNCHANGED <<head, diskVars, pat, pc, mainVars, saveVars, histVars>>
    /\ UNCHANGED sideVars

(* ------------------------------ cli.ts main ---------------------------- *)

(* getGitRoot, getHeadSha, getDiffFiles *)
GitContext(i) ==
    /\ pc[i] = "idle"
    /\ cur' = [cur EXCEPT ![i].headSha = head]
    /\ diffFiles' = [diffFiles EXCEPT ![i] = {p \in Paths : tree[p] # NoHash}]
    /\ doneBefore' = [doneBefore EXCEPT ![i] = {j \in Procs : pc[j] \in {"done", "crashed"}}]
    /\ pc' = [pc EXCEPT ![i] = "hash"]
    /\ UNCHANGED <<envVars, diskVars, pat, prev, changed, cmdRes, exitCode, stderr,
                   saveVars, atLock>>
    /\ UNCHANGED sideVars

(* matchingFiles = diffFiles.filter(isMatch); currentHashes = computeHashes(...);
   a rejection of computeHashes would reach main().catch *)
ComputeHashes(i) ==
    /\ pc[i] = "hash"
    /\ LET matchingFiles == {p \in diffFiles[i] : isMatch(pat[i], p)}
       IN IF computeHashesSettles(matchingFiles, tree) = "fulfilled"
          THEN /\ cur' = [cur EXCEPT ![i].fileHashes = computeHashes(matchingFiles, tree)]
               /\ pc' = [pc EXCEPT ![i] = "load"]
               /\ UNCHANGED <<exitCode, stderr>>
          ELSE /\ stderr' = [stderr EXCEPT ![i] = Append(@, "fatal error")]
               /\ exitCode' = [exitCode EXCEPT ![i] = 1]
               /\ pc' = [pc EXCEPT ![i] = "done"]
               /\ UNCHANGED cur
    /\ UNCHANGED <<envVars, diskVars, pat, diffFiles, prev, changed, cmdRes,
                   saveVars, histVars>>
    /\ UNCHANGED sideVars

(* previousState = loadState(...); on a first run the notice of lines 77-79,
   else changedFiles = findChangedFiles(...); all in one tick; saveState then
   awaits mkdir(dirname(statePath)), which changes nothing here, before it
   enters withFileLock *)
LoadAndDiff(i) ==
    /\ pc[i] = "load"
    /\ LET previousState == loadState(file, pat[i])
       IN /\ prev' = [prev EXCEPT ![i] = previousState]
          /\ changed' = [changed EXCEPT ![i] =
                IF isFirstRun(previousState) THEN <<>>
                ELSE findChangedFiles(previousState.fileHashes, cur[i].fileHashes)]
          /\ stderr' = [stderr EXCEPT ![i] =
                IF isFirstRun(previousState) THEN Append(@, "first run") ELSE @]
    /\ pc' = [pc EXCEPT ![i] = afterDiff(changed'[i])]
    /\ UNCHANGED <<envVars, diskVars, pat, diffFiles, cur, cmdRes, exitCode, saveVars, histVars>>
    /\ UNCHANGED sideVars

(* ------------------------ state.ts saveState --------------------------- *)

(* one iteration of the withFileLock loop: open(lockPath, 'wx'); on EEXIST
   sleep and continue, or throw after the last attempt *)
TryOpen(i) ==
    /\ pc[i] = "open"
    /\ IF ~markerExists(lock)
       THEN /\ lock' = i
            /\ atLock' = file
            /\ attempt' = [attempt EXCEPT ![i] = 0]
            /\ pc' = [pc EXCEPT ![i] = "read"]
            /\ UNCHANGED <<contended, saveRes>>
       ELSE /\ contended' = [contended EXCEPT ![i] = lock]
            /\ lock' = markerAfterFailedOpen(lock)
            /\ UNCHANGED atLock
            /\ IF attempt[i] < maxRetries - 1
               THEN /\ attempt' = [attempt EXCEPT ![i] = @ + 1]
                    /\ UNCHANGED <<pc, saveRes>>
               ELSE /\ saveRes' = [saveRes EXCEPT ![i] = "timeout"]
                    /\ pc' = [pc EXCEPT ![i] = "saved"]
                    /\ UNCHANGED attempt
    /\ UNCHANGED <<envVars, file, pat, mainVars, toWrite, doneBefore>>
    /\ UNCHANGED sideVars

(* open fails with an error other than EEXIST: rethrown, fd undefined, no unlink *)
OpenError(i) ==
    /\ pc[i] = "open"
    /\ saveRes' = [saveRes EXCEPT ![i] = "openerr"]
    /\ attempt' = [attempt EXCEPT ![i] = 0]
    /\ pc' = [pc EXCEPT ![i] = "saved"]
    /\ UNCHANGED <<envVars, diskVars, pat, mainVars, contended, toWrite, histVars>>
    /\ UNCHANGED sideVars

(* fn(): readFile + JSON.parse (errors swallowed), stateFile[pattern] = state *)
ReadState(i) ==
    /\ pc[i] = "read"
    /\ LET stateFile == readStateFile(file)
       IN IF stateFile.kind = "jsonnull"
          THEN /\ saveRes' = [saveRes EXCEPT ![i] = "typeerr"]
               /\ pc' = [pc EXCEPT ![i] = onFnError]
               /\ UNCHANGED toWrite
          ELSE /\ toWrite' = [toWrite EXCEPT ![i] = mergeState(stateFile, pat[i], cur[i])]
               /\ pc' = [pc EXCEPT ![i] = "write"]
               /\ UNCHANGED saveRes
    /\ UNCHANGED <<envVars, diskVars, pat, mainVars, attempt, contended, histVars>>
    /\ UNCHANGED sideVars

(* writeFile opens the state file with O_TRUNC ... *)
WriteBegin(i) ==
    /\ pc[i] = "write"
    /\ file' = MalformedFile
    /\ pc' = [pc EXCEPT ![i] = "writing"]
    /\ UNCHANGED <<envVars, lock, pat, mainVars, saveVars, histVars>>
    /\ UNCHANGED sideVars

(* ... and then writes JSON.stringify(stateFile, null, 2) + '\n' *)
WriteEnd(i) ==
    /\ pc[i] = "writing"
    /\ file' = toWrite[i]
    /\ saveRes' = [saveRes EXCEPT ![i] = "ok"]
    /\ pc' = [pc EXCEPT ![i] = onFnReturn]
    /\ UNCHANGED <<envVars, lock, pat, mainVars, attempt, contended, toWrite, histVars>>
    /\ UNCHANGED sideVars

(* writeFile rejects: before the truncation (permission denied) the file is
   untouched, after it (disk full) the file is left truncated *)
WriteError(i) ==
    /\ pc[i] \in {"write", "writing"}
    /\ saveRes' = [saveRes EXCEPT ![i] = "writeerr"]
    /\ pc' = [pc EXCEPT ![i] = onFnError]
    /\ UNCHANGED <<envVars, diskVars, pat, mainVars, attempt, contended, toWrite, histVars>>
    /\ UNCHANGED sideVars

(* finally: fd.close(), unlink(lockPath); saveState settles and the locals of
   fn and withFileLock go out of scope *)
Release(i) ==
    /\ pc[i] = "release"
    /\ lock' = NoProc
    /\ toWrite' = [toWrite EXCEPT ![i] = MissingFile]
    /\ contended' = [contended EXCEPT ![i] = NoProc]
    /\ atLock' = MissingFile
    /\ pc' = [pc EXCEPT ![i] = "saved"]
    /\ UNCHANGED <<envVars, file, pat, mainVars, attempt, saveRes, doneBefore>>
    /\ UNCHANGED sideVars

(* --------------------- cli.ts main, after saveState -------------------- *)

(* saveState rejected: main().catch reports the error and exits 1; first run
   or empty diff: exit 0; otherwise the notice of lines 94-96, and executeAll
   starts every command in the same tick *)
Continue(i) ==
    /\ pc[i] = "saved"
    /\ IF saveRes[i] # "ok"
       THEN /\ stderr' = [stderr EXCEPT ![i] = Append(@, "fatal error")]
            /\ exitCode' = [exitCode EXCEPT ![i] = 1]
            /\ pc' = [pc EXCEPT ![i] = "done"]
            /\ UNCHANGED cmdRes
       ELSE IF isFirstRun(prev[i]) \/ noChanges(changed[i])
       THEN /\ exitCode' = [exitCode EXCEPT ![i] = 0]
            /\ pc' = [pc EXCEPT ![i] = "done"]
            /\ UNCHANGED <<cmdRes, stderr>>
       ELSE /\ stderr' = [stderr EXCEPT ![i] = Append(@, "files changed")]
            /\ cmdRes' = [cmdRes EXCEPT ![i] = [c \in Cmds |-> Running]]
            /\ pc' = [pc EXCEPT ![i] = "exec"]
            /\ UNCHANGED exitCode
    /\ UNCHANGED <<envVars, diskVars, pat, diffFiles, cur, prev, changed, saveVars, histVars>>
    /\ UNCHANGED sideVars

(* executeCommand settles with the exit code of its command *)
CommandExit(i, c, code) ==
    /\ pc[i] = "exec"
    /\ cmdRes[i][c] = Running
    /\ cmdRes' = [cmdRes EXCEPT ![i][c] = code]
    /\ UNCHANGED <<envVars, diskVars, pat, pc, diffFiles, cur, prev, changed, exitCode,
                   stderr, saveVars, histVars>>
    /\ UNCHANGED sideVars

(* results.filter(r => r.exitCode !== 0); printFailures and exit 1 if any,
   else exit 0 *)
Finish(i) ==
    /\ pc[i] = "exec"
    /\ \A c \in Cmds : cmdRes[i][c] \in ExitCodes
    /\ exitCode' = [exitCode EXCEPT ![i] =
            IF failures(cmdRes[i]) # {} THEN 1 ELSE 0]
    /\ stderr' = [stderr EXCEPT ![i] =
            IF failures(cmdRes[i]) # {} THEN Append(@, "failures") ELSE @]
    /\ pc' = [pc EXCEPT ![i] = "done"]
    /\ UNCHANGED <<envVars, diskVars, pat, diffFiles, cur, prev, changed, cmdRes,
                   saveVars, histVars>>
    /\ UNCHANGED sideVars

Next ==
    \/ \E path \in Paths, h \in Hashes \cup {NoHash} : ModifyFile(path, h)
    \/ \E i \in Procs : GitContext(i)
    \/ \E i \in Procs : ComputeHashes(i)
    \/ \E i \in Procs : LoadAndDiff(i)
    \/ \E i \in Procs : TryOpen(i)
    \/ \E i \in Procs : OpenError(i)
    \/ \E i \in Procs : ReadState(i)
    \/ \E i \in Procs : WriteBegin(i)
    \/ \E i \in Procs : WriteEnd(i)
    \/ \E i \in Procs : WriteError(i)
    \/ \E i \in Procs : Release(i)
    \/ \E i \in Procs : Continue(i)
    \/ \E i \in Procs, c \in Cmds, code \in ExitCodes : CommandExit(i, c, code)
    \/ \E i \in Procs : Finish(i)

Spec == Init /\ [][Next]_vars

(* the steps of one invocation; the event loop and the operating system let
   every invocation that can take a step take one *)
ProcNext(i) ==
    \/ GitContext(i) \/ ComputeHashes(i) \/ LoadAndDiff(i)
    \/ TryOpen(i) \/ ReadState(i) \/ WriteBegin(i) \/ WriteEnd(i)
    \/ Release(i) \/ Continue(i)

FairSpec == Spec /\ \A i \in Procs : WF_vars(ProcNext(i))

TypeOK ==
    /\ file.kind \in {"missing", "malformed", "object"}
    /\ lock \in Procs \cup {NoProc}
    /\ \A i \in Procs : attempt[i] \in 0..(maxRetries - 1)

(* ---------------------- invocations that can crash --------------------- *)

(* the process of an invocation is killed (SIGKILL, power loss): it takes no
   further step, and no catch or finally block runs, so the marker it created
   and whatever its writeFile has done to the state file stay as they are *)
Crash(i) ==
    /\ pc[i] \notin {"idle", "done", "crashed"}
    /\ Cardinality({j \in Procs : pc[j] = "crashed"}) < MaxCrashes
    /\ pc' = [pc EXCEPT ![i] = "crashed"]
    /\ UNCHANGED <<envVars, diskVars, pat, mainVars, saveVars, histVars, sideVars>>

CrashNext ==
    \/ Next
    \/ \E i \in Procs : Crash(i)

CrashSpec == Init /\ [][CrashNext]_vars

(* -------------- the invocations on a damaged state file ---------------- *)

(* state files as an earlier corruption or an edit by hand can leave them *)
CorruptFiles ==
    {MissingFile, MalformedFile, UnreadableFile, JsonNullFile, JsonArrayFile}

CorruptInit == InitWith(CorruptFiles)

CorruptSpec == CorruptInit /\ [][Next]_vars

(* ------------- cli.ts main lines 99-112 with executor.ts --------------- *)

(* the invocations at rest, for the detailed views *)
InvocationsIdle ==
    /\ tree = [p \in Paths |-> IF p = "a" THEN "h1" ELSE NoHash]
    /\ head = "c2"
    /\ mods = 0
    /\ file = MissingFile
    /\ lock = NoProc
    /\ pat = [i \in Procs |-> "p1"]
    /\ pc = [i \in Procs |-> "idle"]
    /\ diffFiles = [i \in Procs |-> {}]
    /\ cur = [i \in Procs |-> [headSha |-> "c2", fileHashes |-> EmptyHashes]]
    /\ prev = [i \in Procs |-> NoSnap]
    /\ changed = [i \in Procs |-> <<>>]
    /\ attempt = [i \in Procs |-> 0]
    /\ contended = [i \in Procs |-> NoProc]
    /\ toWrite = [i \in Procs |-> MissingFile]
    /\ saveRes = [i \in Procs |-> "none"]
    /\ cmdRes = [i \in Procs |-> [c \in Cmds |-> Idle]]
    /\ exitCode = [i \in Procs |-> -1]
    /\ stderr = [i \in Procs |-> <<>>]
    /\ atLock = MissingFile
    /\ doneBefore = [i \in Procs |-> {}]

(* an invocation that found changed files and has saved its state *)
ExecInit ==
    /\ InvocationsIdle
    /\ LoadIdle
    /\ DiffIdle
    /\ commands \in [Cmds -> CommandTexts]
    /\ templateVars = EnvOf("a.ts")
    /\ execCalls = <<>>
    /\ child = [c \in Cmds |-> "none"]
    /\ outcome = [c \in Cmds |-> NoOutcome]
    /\ values = [c \in Cmds |-> NoResult]
    /\ order = <<>>
    /\ results = <<>>
    /\ report = <<>>
    /\ xpc = "call"
    /\ xstatus = -1

(* executeAll: commands.map runs every executeCommand up to its await, so
   every command is interpolated and handed to exec in the same tick *)
ExecuteAll ==
    /\ xpc = "call"
    /\ execCalls' = [c \in Cmds |-> interpolateTemplate(commands[c], templateVars)]
    /\ child' = [c \in Cmds |-> "running"]
    /\ xpc' = "await"
    /\ UNCHANGED <<notExecVars, commands, templateVars, outcome, values, order,
                   results, report, xstatus>>

(* the child of one command ends and its executeCommand promise settles; a
   rejection would reject Promise.all at once, and main().catch would report
   it and exit 1 with the other children still running *)
ChildEnds(c, o) ==
    /\ xpc = "await"
    /\ child[c] \in {"running", "signalled"}
    /\ child[c] = "signalled" => o.kind \in endsAfterSignal
    /\ child' = [child EXCEPT ![c] = "settled"]
    /\ outcome' = [outcome EXCEPT ![c] = o]
    /\ order' = Append(order, c)
    /\ IF executeCommandSettles(o) = "fulfilled"
       THEN /\ values' = [values EXCEPT ![c] = commandResult(commands[c], templateVars, o)]
            /\ UNCHANGED <<report, xpc, xstatus>>
       ELSE /\ report' = <<Output("fatal error", "")>>
            /\ xpc' = "fatal"
            /\ xstatus' = 1
            /\ UNCHANGED values
    /\ UNCHANGED <<notExecVars, commands, templateVars, execCalls, results>>

(* exec's timeout option, executeCommand lines 20-23: when timeoutMs has
   passed exec sends the kill signal (SIGTERM by default) to the shell it
   spawned, once, and goes on waiting for the child to close; a command that
   handles or ignores the signal, or a descendant that holds the output
   pipes, is still running afterwards *)
TimeoutSignalSurvived(c) ==
    /\ xpc = "await"
    /\ child[c] = "running"
    /\ child' = [child EXCEPT ![c] = "signalled"]
    /\ UNCHANGED <<notExecVars, commands, templateVars, execCalls, outcome, values,
                   order, results, report, xpc, xstatus>>

(* Promise.all resolves with the values in the order of the commands *)
ExecuteAllReturns ==
    /\ xpc = "await"
    /\ \A c \in Cmds : child[c] = "settled"
    /\ results' = promiseAll(values, order)
    /\ xpc' = "returned"
    /\ UNCHANGED <<notExecVars, commands, templateVars, execCalls, child, outcome,
                   values, order, report, xstatus>>

(* main lines 105-112 *)
ReportAndExit ==
    /\ xpc = "returned"
    /\ LET fs == failedResults(results)
       IN IF Len(fs) > 0
          THEN report' = printFailures(fs) /\ xstatus' = 1
          ELSE report' = <<>> /\ xstatus' = 0
    /\ xpc' = "exited"
    /\ UNCHANGED <<notExecVars, commands, templateVars, execCalls, child, outcome,
                   values, order, results>>

ExecNext ==
    \/ ExecuteAll
    \/ \E c \in Cmds, o \in ChildOutcomes : ChildEnds(c, o)
    \/ \E c \in Cmds : TimeoutSignalSurvived(c)
    \/ ExecuteAllReturns
    \/ ReportAndExit

ExecSpec == ExecInit /\ [][ExecNext]_vars

(* ------------------------ state.ts loadState alone --------------------- *)

LoadPatterns == Patterns \cup ObjectPrototype
OtherSnap == [headSha |-> "c2", fileHashes |-> [p \in Paths |-> "h2"]]

(* StateFile objects: any own keys, each with a snapshot *)
LoadObjects ==
    UNION {[ks -> {BaseSnap, OtherSnap}] : ks \in SUBSET LoadPatterns}

(* what the state file can hold: nothing, text that cannot be read, text that
   is not JSON, the JSON values null and [], or an object *)
LoadFiles ==
    {[kind |-> k, obj |-> <<>>] :
        k \in {"missing", "unreadable", "malformed", "jsonnull", "jsonarray"}}
      \cup {[kind |-> "object", obj |-> o] : o \in LoadObjects}

LoadInit ==
    /\ InvocationsIdle
    /\ ExecIdle
    /\ DiffIdle
    /\ ldFile \in LoadFiles
    /\ ldPattern \in LoadPatterns
    /\ ldResult = NoSnap
    /\ ldpc = "call"

(* loadState returns; its catch block leaves no way to throw *)
LoadStateCall ==
    /\ ldpc = "call"
    /\ ldResult' = loadState(ldFile, ldPattern)
    /\ ldpc' = "returned"
    /\ UNCHANGED <<notLoadVars, ldFile, ldPattern>>

LoadNext == LoadStateCall

LoadSpec == LoadInit /\ [][LoadNext]_vars

(* -------------------- state.ts findChangedFiles alone ------------------ *)

DiffPaths == Paths \cup ObjectPrototype
DiffMaps == [DiffPaths -> Hashes \cup {NoHash}]
(* the orders in which the keys can be visited *)
DiffOrders ==
    {o \in [1..Cardinality(DiffPaths) -> DiffPaths] :
        \A k, l \in DOMAIN o : k # l => o[k] # o[l]}

DiffInit ==
    /\ InvocationsIdle
    /\ ExecIdle
    /\ LoadIdle
    /\ dfPrevious \in DiffMaps
    /\ dfCurrent \in DiffMaps
    /\ dfOrder \in DiffOrders
    /\ dfResult = <<>>
    /\ dfpc = "call"

FindChangedFilesCall ==
    /\ dfpc = "call"
    /\ dfResult' = findChangedFilesIn(dfOrder, dfPrevious, dfCurrent)
    /\ dfpc' = "returned"
    /\ UNCHANGED <<notDiffVars, dfPrevious, dfCurrent, dfOrder>>

DiffNext == FindChangedFilesCall

DiffSpec == DiffInit /\ [][DiffNext]_vars

(* ----------------------------- vocabulary ------------------------------ *)

(* the invocation is between the creation of the marker and its removal *)
OwnsMarker(i) == pc[i] \in {"read", "write", "writing", "release"}

(* saveState of the invocation has settled *)
Returned(i) == pc[i] \in {"saved", "exec", "done"}

(* the invocation has passed loadState *)
Loaded(i) == pc[i] \notin {"idle", "hash", "load"}

DistinctPatterns == \A i, j \in Procs : i # j => pat[i] # pat[j]

AllStored ==
    /\ file.kind = "object"
    /\ \A i \in Procs : file.obj[pat[i]] = cur[i]

(* the invocation has modified the state file *)
Wrote(k) == pc[k] = "writing" \/ saveRes[k] \in {"ok", "writeerr"}

(* ------------------------------- claims -------------------------------- *)

(* C1, as stated: with pairwise distinct patterns, once every saveState call
   has returned the state file maps every pattern to the snapshot its call
   supplied.  Calls stopped by an I/O error are left out here, so that what
   refutes the statement is the protocol itself. *)
C1_AllReturnedAllStored ==
    (/\ DistinctPatterns
     /\ \A i \in Procs : Returned(i) /\ saveRes[i] \notin {"openerr", "writeerr"})
        => AllStored

(* C1, amended: with pairwise distinct patterns, once every saveState call
   has returned successfully the state file maps every pattern to the
   snapshot its call supplied; a call that gave up after maxRetries attempts
   has stored nothing. *)
C1_AllSucceededAllStored ==
    (/\ DistinctPatterns
     /\ \A i \in Procs : Returned(i) /\ saveRes[i] = "ok")
        => AllStored

(* two saves for distinct patterns that overlapped, both stored *)
C1_Witness ==
    /\ DistinctPatterns
    /\ \A i \in Procs : pc[i] = "done" /\ saveRes[i] = "ok" /\ doneBefore[i] = {}
    /\ AllStored

(* C2: when the write of a successful saveState(P, s) has completed, the state
   file maps P to s and maps every other pattern to exactly what was stored
   for it when the save took the lock: whatever an earlier, completed save
   stored for another pattern is still there. *)
C2_SavePreservesOthers ==
    \A i \in Procs :
        (pc[i] = "release" /\ saveRes[i] = "ok") =>
            /\ file.kind = "object"
            /\ file.obj[pat[i]] = cur[i]
            /\ \A q \in Patterns \ {pat[i]} : file.obj[q] = loadState(atLock, q)

(* a save that keeps the snapshot an earlier invocation stored for another pattern *)
C2_Witness ==
    \E i, j \in Procs :
        /\ pc[i] = "release" /\ saveRes[i] = "ok"
        /\ pat[j] # pat[i] /\ pc[j] = "done" /\ saveRes[j] = "ok"
        /\ j \in doneBefore[i]
        /\ file.obj[pat[j]] = cur[j]
        /\ file.obj[pat[i]] = cur[i]

(* C3: at most one invocation owns the lock marker at any time, and the
   marker on disk is the one its owner created. *)
C3_SingleOwner ==
    \A i, j \in Procs :
        OwnsMarker(i) => (lock = i /\ (j # i => ~OwnsMarker(j)))

(* one invocation inside the read-modify-write while another one retries *)
C3_Witness ==
    \E i, j \in Procs :
        /\ i # j
        /\ pc[i] = "writing"
        /\ pc[j] = "open" /\ attempt[j] > 1 /\ contended[j] = i

(* C4, as stated: a file change is reported as changed, and triggers the
   commands, in at most one of two invocations on the same pattern that ran
   concurrently from the same baseline. *)
C4_OneReportPerChange ==
    \A i, j \in Procs :
        (/\ i # j /\ pat[i] = pat[j]
         /\ prev[i] # NoSnap /\ prev[i] = prev[j]
         /\ cur[i].fileHashes = cur[j].fileHashes
         /\ saveRes[i] = "ok" /\ saveRes[j] = "ok")
            => ~(pc[i] \in {"exec", "done"} /\ Len(changed[i]) > 0
                 /\ pc[j] \in {"exec", "done"} /\ Len(changed[j]) > 0)

(* C4, amended: only the read-modify-write inside saveState is atomic.  From
   the creation of the marker to the start of the holder's write nobody else
   changes the state file, and what the holder writes is the content it found
   with its own pattern replaced.  loadState runs before the lock is taken, so
   another invocation's save can take effect between the load and the save,
   and two concurrent invocations can both report the same change. *)
C4_ReadModifyWriteAtomic ==
    \A i \in Procs :
        /\ pc[i] \in {"read", "write"} => file = atLock
        /\ pc[i] = "write" => toWrite[i] = mergeState(readStateFile(file), pat[i], cur[i])

(* the holder is about to write while a concurrent invocation that loaded the
   same baseline and saw the same change waits for the marker *)
C4_Witness ==
    \E i, j \in Procs :
        /\ i # j /\ pat[i] = pat[j]
        /\ pc[i] = "write" /\ pc[j] = "open" /\ contended[j] = i
        /\ prev[i] # NoSnap /\ prev[i] = prev[j]
        /\ Len(changed[i]) > 0 /\ Len(changed[j]) > 0

(* C5: when a saveState call that created the marker has returned, with
   success or with the error thrown inside the read-modify-write, its marker
   is gone. *)
C5_MarkerRemovedOnReturn ==
    \A i \in Procs : Returned(i) => lock # i

(* a save whose write failed has returned and left no marker *)
C5_Witness ==
    \E i \in Procs :
        /\ pc[i] = "saved" /\ saveRes[i] = "writeerr"
        /\ lock = NoProc
        /\ file = MalformedFile

(* C6: a saveState call that found the marker present acquires the lock at
   the first of its attempts at which the marker is gone, and when its write
   has succeeded the state file holds the write of the holder it waited for
   merged with its own snapshot (no third invocation having written). *)
C6_ContendedSaveMerges ==
    /\ [][\A i \in Procs :
            (/\ pc[i] = "open" /\ contended[i] # NoProc /\ lock = NoProc
             /\ <<pc[i], attempt[i], saveRes[i]>> # <<pc'[i], attempt'[i], saveRes'[i]>>
             /\ saveRes'[i] # "openerr")
                => (lock' = i /\ pc'[i] = "read")]_vars
    /\ [](\A i, h \in Procs :
            (/\ pc[i] = "release" /\ saveRes[i] = "ok"
             /\ contended[i] = h /\ saveRes[h] = "ok" /\ pat[h] # pat[i]
             /\ \A k \in Procs \ {i, h} : ~Wrote(k))
                => /\ file.kind = "object"
                   /\ file.obj[pat[h]] = cur[h]
                   /\ file.obj[pat[i]] = cur[i])

(* after several failed attempts the caller has got the lock and written: the
   file holds the holder's snapshot and its own *)
C6_Witness ==
    \E i, h \in Procs :
        /\ pc[i] = "release" /\ saveRes[i] = "ok"
        /\ contended[i] = h /\ saveRes[h] = "ok" /\ pat[h] # pat[i]
        /\ atLock.kind = "object" /\ atLock.obj[pat[i]] = NoSnap
        /\ file.obj[pat[h]] = cur[h] /\ file.obj[pat[i]] = cur[i]

(* C7: a saveState call makes at most 20 attempts to create the marker; it
   ends with the lock-timeout error exactly when the marker was present at
   the 20th of them, and then it has neither read nor written the state
   file nor created the marker.  Every retry advances the attempt counter,
   and a call that has entered the loop returns. *)
C7_BoundedRetries ==
    /\ [](\A i \in Procs :
            /\ attempt[i] + 1 <= 20
            /\ saveRes[i] = "timeout" =>
                    (attempt[i] + 1 = 20 /\ contended[i] # NoProc /\ Returned(i)))
    /\ [][\A i \in Procs :
            /\ (pc[i] = "open" /\ pc'[i] = "open" /\ attempt'[i] # attempt[i])
                    => (attempt'[i] = attempt[i] + 1 /\ lock # NoProc)
            /\ (pc[i] = "open" /\ lock # NoProc /\ attempt[i] + 1 = 20
                /\ pc'[i] # "open" /\ saveRes'[i] # "openerr")
                    => saveRes'[i] = "timeout"
            /\ (saveRes'[i] = "timeout" /\ saveRes[i] # "timeout")
                    => (pc[i] = "open" /\ file' = file /\ lock' = lock /\ lock # i)]_vars
    /\ \A i \in Procs : (pc[i] = "open") ~> Returned(i)

(* a call has given up after its 20th attempt while the holder is still writing *)
C7_Witness ==
    \E i, h \in Procs :
        /\ pc[i] = "saved" /\ saveRes[i] = "timeout" /\ attempt[i] = 19
        /\ lock = h /\ pc[h] = "writing"

(* C8: an invocation that finds no prior snapshot for its pattern runs no
   command; its save, when it succeeds, stores the current snapshot as the
   baseline, and it then exits with status 0, whatever files match. *)
C8_FirstRunStoresBaseline ==
    \A i \in Procs :
        (Loaded(i) /\ prev[i] = NoSnap) =>
            /\ \A c \in Cmds : cmdRes[i][c] = Idle
            /\ pc[i] # "exec"
            /\ (pc[i] = "release" /\ saveRes[i] = "ok")
                    => (file.kind = "object" /\ file.obj[pat[i]] = cur[i])
            /\ (pc[i] = "done" /\ saveRes[i] = "ok") => exitCode[i] = 0
            /\ pc[i] = "done" => saveRes[i] # "none"

(* a first run with a matching file in the diff has stored its baseline and exited 0 *)
C8_Witness ==
    \E i \in Procs :
        /\ pc[i] = "done" /\ prev[i] = NoSnap /\ exitCode[i] = 0
        /\ cur[i].fileHashes # EmptyHashes
        /\ file.kind = "object" /\ file.obj[pat[i]] = cur[i]

(* the second of two runs in immediate succession: the first had exited with
   its snapshot saved when the second started, the files hash the same, and
   nobody else has written the state file *)
SecondRun(i, j) ==
    /\ i # j /\ pat[i] = pat[j]
    /\ i \in doneBefore[j] /\ saveRes[i] = "ok"
    /\ Loaded(j)
    /\ cur[j].fileHashes = cur[i].fileHashes
    /\ \A k \in Procs \ {i, j} : ~Wrote(k) /\ ~OwnsMarker(k)

(* C9: the second of two runs in immediate succession for the same pattern,
   no file having been modified in between, computes an empty diff against
   the snapshot of the first, starts no command and exits with status 0. *)
C9_SecondRunNoChanges ==
    \A i, j \in Procs :
        SecondRun(i, j) =>
            /\ prev[j] = cur[i]
            /\ Len(changed[j]) = 0
            /\ \A c \in Cmds : cmdRes[j][c] = Idle
            /\ pc[j] # "exec"
            /\ (pc[j] = "done" /\ saveRes[j] = "ok") => exitCode[j] = 0

(* the two runs have exited, the first one after running its commands on a change *)
C9_Witness ==
    \E i, j \in Procs :
        /\ SecondRun(i, j)
        /\ Len(changed[i]) > 0 /\ cur[i].fileHashes # EmptyHashes
        /\ pc[j] = "done" /\ saveRes[j] = "ok" /\ exitCode[j] = 0

(* C10: an invocation that found a prior snapshot always goes through
   saveState, with an empty diff as with a non-empty one; a successful save
   stores the current snapshot, and no command is started before the save has
   succeeded and the marker is released. *)
C10_AlwaysSavesBeforeCommands ==
    \A i \in Procs :
        (Loaded(i) /\ prev[i] # NoSnap) =>
            /\ pc[i] \in {"exec", "done"} => saveRes[i] # "none"
            /\ (pc[i] = "release" /\ saveRes[i] = "ok")
                    => (file.kind = "object" /\ file.obj[pat[i]] = cur[i])
            /\ (\E c \in Cmds : cmdRes[i][c] # Idle)
                    => (saveRes[i] = "ok" /\ pc[i] \in {"exec", "done"} /\ lock # i)

(* a run with an empty diff has replaced the stored snapshot all the same *)
C10_Witness ==
    \E i \in Procs :
        /\ pc[i] = "saved" /\ saveRes[i] = "ok"
        /\ prev[i] # NoSnap /\ Len(changed[i]) = 0
        /\ cur[i] # prev[i]
        /\ file.kind = "object" /\ file.obj[pat[i]] = cur[i]

(* C11: for an invocation that found a prior snapshot and whose save
   succeeded, the commands are started if and only if the prior and the
   current hash maps differ; they are started together, after the save, and
   a command once started is never started again. *)
C11_CommandsIffChanged ==
    /\ [](\A i \in Procs :
            (prev[i] # NoSnap /\ pc[i] \in {"exec", "done"} /\ saveRes[i] = "ok") =>
                \A c \in Cmds :
                    cmdRes[i][c] # Idle <=> prev[i].fileHashes # cur[i].fileHashes)
    /\ [][\A i \in Procs, c \in Cmds :
            /\ (cmdRes[i][c] = Idle /\ cmdRes'[i][c] # Idle)
                    => (pc[i] = "saved" /\ \A d \in Cmds : cmdRes'[i][d] = Running)
            /\ cmdRes[i][c] = Running => cmdRes'[i][c] \in ExitCodes \cup {Running}
            /\ cmdRes[i][c] \in ExitCodes => cmdRes'[i][c] = cmdRes[i][c]]_vars

(* a change of content against the stored snapshot: the command has been
   started and has exited *)
C11_Witness ==
    \E i \in Procs :
        /\ prev[i] # NoSnap /\ pc[i] = "done" /\ saveRes[i] = "ok"
        /\ prev[i].fileHashes["a"] = "h1" /\ cur[i].fileHashes["a"] = "h2"
        /\ \A c \in Cmds : cmdRes[i][c] \in ExitCodes

(* C12: an invocation whose save did not fail exits with status 1 if and
   only if its commands were run and at least one of them has a result with a
   non-zero exit code; on a first run, with no change, or with every command
   exiting 0, it exits with status 0. *)
C12_ExitStatus ==
    \A i \in Procs :
        (pc[i] = "done" /\ saveRes[i] = "ok") =>
            /\ exitCode[i] \in {0, 1}
            /\ exitCode[i] = 1 <=> \E c \in Cmds : cmdRes[i][c] \notin {Idle, 0}
            /\ (prev[i] = NoSnap \/ prev[i].fileHashes = cur[i].fileHashes)
                    => exitCode[i] = 0

(* one command exited 0 and the other one 3: the invocation has exited 1 *)
C12_Witness ==
    \E i \in Procs :
        /\ pc[i] = "done" /\ saveRes[i] = "ok" /\ exitCode[i] = 1
        /\ \E c, d \in Cmds : cmdRes[i][c] = 0 /\ cmdRes[i][d] = 3

IsHeader(w) == w.kind = "header"

(* the exit status a command has in the report: that of its child, 1 for a
   killed child, the error code for an overflow of the capture buffer or for
   a failed spawn *)
Failed(c) == ~(outcome[c].kind = "exit" /\ outcome[c].code = 0)

(* C13: when the invocation has exited, the report has as many blocks as
   there are commands whose child did not exit 0; every such command has a
   block with its text as authored and its exit status, followed by the
   output captured from it ([stdout] then [stderr], each when not empty); and
   no block carries exit status 0. *)
C13_ReportBlocks ==
    xpc = "exited" =>
        /\ Len(SelectSeq(report, IsHeader)) = Cardinality({c \in Cmds : Failed(c)})
        /\ \A c \in Cmds : Failed(c) =>
                \E j \in DOMAIN report :
                    /\ report[j].kind = "header"
                    /\ report[j].command = commands[c]
                    /\ report[j].exitCode = IF outcome[c].kind = "exit" THEN outcome[c].code
                                            ELSE IF outcome[c].kind = "timeout" THEN 1
                                            ELSE IF outcome[c].kind = "maxbuffer"
                                                 THEN ERR_CHILD_PROCESS_STDIO_MAXBUFFER
                                            ELSE SpawnErrno
                    /\ LET so == IF outcome[c].stdout # "" THEN 1 ELSE 0
                           se == IF outcome[c].stderr # "" THEN 1 ELSE 0
                       IN /\ j + so + se <= Len(report)
                          /\ so = 1 => report[j + 1] = Output("stdout", outcome[c].stdout)
                          /\ se = 1 => report[j + so + 1] = Output("stderr", outcome[c].stderr)
                          /\ j + so + se < Len(report)
                                => report[j + so + se + 1].kind = "header"
        /\ \A j \in DOMAIN report : report[j].kind = "header" => report[j].exitCode # 0

(* of two commands the first exited 0 and the second exited 3 with output on
   both streams: the report is the block of the second *)
C13_Witness ==
    /\ xpc = "exited"
    /\ \E c, d \in Cmds :
        /\ c < d
        /\ outcome[c] = [kind |-> "exit", code |-> 0, stdout |-> "out", stderr |-> ""]
        /\ outcome[d] = [kind |-> "exit", code |-> 3, stdout |-> "out", stderr |-> "err"]
        /\ commands[d] = <<Lit("lint"), Ph("ON_CHANGES_RUN_CHANGED_FILES")>>
        /\ \A e \in Cmds \ {d} : ~Failed(e)
    /\ Len(report) = 3
    /\ report[1].kind = "header" /\ report[1].exitCode = 3

(* C14, as stated: an invocation whose saveState failed with the lock
   timeout or with a write failure exits with status 1, has started no
   command, and the report of the error is the one message it has written. *)
C14_FatalSaveSingleMessage ==
    \A i \in Procs :
        (pc[i] = "done" /\ saveRes[i] \in {"timeout", "writeerr"}) =>
            /\ exitCode[i] = 1
            /\ \A c \in Cmds : cmdRes[i][c] = Idle
            /\ stderr[i] = <<"fatal error">>

(* C15, as stated: loadState never throws; it returns the snapshot stored
   for the pattern when the state file holds an object with an entry for the
   pattern, and null (absent) in every other case: file missing, unreadable,
   not JSON, not an object, or an object without the pattern. *)
C15_LoadStateAbsentOrStored ==
    /\ ldpc # "threw"
    /\ ldpc = "returned" =>
            ldResult = IF ldFile.kind = "object" /\ ldPattern \in DOMAIN ldFile.obj
                       THEN ldFile.obj[ldPattern]
                       ELSE NoSnap

(* C16, as stated: whatever the state file holds when a saveState call takes
   the lock, the read-modify-write ends without an error other than a failure
   of the write itself, and the file then contains the snapshot saved for the
   pattern. *)
C16_SaveSurvivesCorruption ==
    \A i \in Procs :
        (pc[i] = "release" /\ saveRes[i] # "writeerr") =>
            /\ saveRes[i] = "ok"
            /\ file.kind = "object"
            /\ pat[i] \in DOMAIN file.obj
            /\ file.obj[pat[i]] = cur[i]

(* C17, as stated: after a crash of an invocation at any point up to the
   middle of its save, the state file read back gives for every pattern the
   snapshot it held before the save or the one the save was to store. *)
C17_CrashLeavesCompleteFile ==
    \A i \in Procs :
        (pc[i] = "crashed" /\ lock = i) =>
            \A q \in Patterns :
                \/ loadState(file, q) = loadState(atLock, q)
                \/ q = pat[i] /\ loadState(file, q) = cur[i]

(* C18, as stated: for all maps previous and current, findChangedFiles
   returns exactly the paths of current whose hash differs from the one in
   previous or that previous does not have, together with the paths of
   previous that current does not have; no path with the same hash in both,
   no path twice, and nothing for two equal maps. *)
C18_DiffExact ==
    dfpc = "returned" =>
        LET returned == {dfResult[k] : k \in DOMAIN dfResult}
        IN /\ returned =
                {p \in DiffPaths : dfCurrent[p] # NoHash /\ dfPrevious[p] # dfCurrent[p]}
                  \cup {p \in DiffPaths : dfPrevious[p] # NoHash /\ dfCurrent[p] = NoHash}
           /\ Len(dfResult) = Cardinality(returned)
           /\ dfPrevious = dfCurrent => dfResult = <<>>

(* C19: once executeAll has resolved, results has one entry per command, and
   entry c carries the text of command c as authored (not the interpolated
   string handed to exec) with the exit status and the output of the child of
   command c, in whatever order the children ended. *)
C19_ResultsInCommandOrder ==
    xpc \in {"returned", "exited"} =>
        /\ DOMAIN results = DOMAIN commands
        /\ \A c \in Cmds :
                /\ results[c].command = commands[c]
                /\ results[c].exitCode =
                        IF outcome[c].kind = "exit" THEN outcome[c].code
                        ELSE IF outcome[c].kind = "timeout" THEN 1
                        ELSE IF outcome[c].kind = "maxbuffer"
                             THEN ERR_CHILD_PROCESS_STDIO_MAXBUFFER
                        ELSE SpawnErrno
                /\ results[c].stdout = outcome[c].stdout
                /\ results[c].stderr = outcome[c].stderr

(* the last command ended first; the first one, whose placeholder was
   expanded for exec, failed with output, and the results are in the order of
   the commands *)
C19_Witness ==
    /\ xpc = "returned"
    /\ Len(order) = NumCmds /\ order[1] = NumCmds /\ order[NumCmds] = 1
    /\ commands[1] = <<Lit("lint"), Ph("ON_CHANGES_RUN_CHANGED_FILES")>>
    /\ execCalls[1] = <<Lit("lint"), Lit("a.ts")>>
    /\ results[1] = [command |-> commands[1], exitCode |-> 3, stdout |-> "out", stderr |-> "err"]
    /\ results[NumCmds].exitCode = 0 /\ results[NumCmds].command = <<Lit("test")>>

(* C20: every command is handed to exec before any child ends; a child that
   exits non-zero, is killed at the timeout or overflows the capture buffer
   never ends the run: executeAll resolves only when every child has ended,
   with a result for every command, and the report then has a block for
   every command whose child did not exit 0. *)
C20_FailuresLeaveSiblingsAlone ==
    /\ xpc # "fatal"
    /\ xpc # "call" =>
            \A c \in Cmds : child[c] # "none" /\ execCalls[c] # <<>>
    /\ xpc \in {"returned", "exited"} =>
            /\ \A c \in Cmds : child[c] = "settled"
            /\ Len(results) = NumCmds
            /\ \A c \in Cmds : Failed(c) <=> results[c].exitCode # 0
    /\ xpc = "exited" =>
            \A c \in Cmds : Failed(c) =>
                \E j \in DOMAIN report :
                    report[j].kind = "header" /\ report[j].command = commands[c]

(* the first child was killed at the timeout, then another one overflowed the
   capture buffer: both commands are in the report *)
C20_Witness ==
    /\ xpc = "exited" /\ xstatus = 1
    /\ outcome[order[1]].kind = "timeout"
    /\ \E c \in Cmds : outcome[c].kind = "maxbuffer" /\ commands[c] # commands[order[1]]
    /\ Len(SelectSeq(report, IsHeader)) = NumCmds


(* ------------------------------------------------------------------------
   C21  A command whose process is still running when the per-command
        timeout expires is terminated and its CommandResult has a non-zero
        exit status: no command is running after its timeout has expired,
        and a command killed at the timeout has a non-zero exit status.
   ------------------------------------------------------------------------ *)
C21_TimeoutTerminates ==
    \A c \in Cmds :
        /\ child[c] # "signalled"
        /\ (child[c] = "settled" /\ outcome[c].kind = "timeout")
              => values[c].exitCode # 0


(* ------------------------------------------------------------------------
   C22  A command that cannot be spawned yields a CommandResult whose exit
        status is exactly 1 and whose stdout and stderr are the output
        available (empty strings if none).
   ------------------------------------------------------------------------ *)
C22_SpawnFailureExitsOne ==
    \A c \in Cmds :
        (child[c] = "settled" /\ outcome[c].kind = "spawnerr") =>
            /\ values[c].exitCode = 1
            /\ values[c].stdout = outcome[c].stdout
            /\ values[c].stderr = outcome[c].stderr


(* ------------------------------------------------------------------------
   C23  interpolateTemplate replaces every placeholder whose name is a key
        of the variable map by that variable's value and leaves every
        placeholder with another name, and all other text, verbatim: the
        text handed to exec is the command with exactly the placeholders of
        known names replaced.
   ------------------------------------------------------------------------ *)
C23_InterpolateKnownOnly ==
    xpc # "call" =>
        \A c \in Cmds :
            /\ DOMAIN execCalls[c] = DOMAIN commands[c]
            /\ \A k \in DOMAIN commands[c] :
                    execCalls[c][k] =
                        IF commands[c][k].ph /\ commands[c][k].text \in DOMAIN templateVars
                        THEN [ph |-> FALSE, text |-> templateVars[commands[c][k].text]]
                        ELSE commands[c][k]


(* ------------------------------------------------------------------------
   C24  computeHashes never fails because a path cannot be read: whenever an
        invocation leaves the hashing step it goes on to load the state, and
        its snapshot has an entry, the hash of the content, for exactly the
        matching files of the diff that could be read at that moment.
   ------------------------------------------------------------------------ *)
C24_ComputeHashesSkipsUnreadable ==
    [][\A i \in Procs :
        (pc[i] = "hash" /\ pc'[i] # "hash") =>
            /\ pc'[i] = "load"
            /\ exitCode'[i] = exitCode[i]
            /\ \A p \in Paths :
                    cur'[i].fileHashes[p] =
                        IF p \in diffFiles[i] /\ isMatch(pat[i], p) /\ tree[p] # NoHash
                        THEN tree[p] ELSE NoHash]_vars

(* a file of the diff that matches the pattern was deleted before it was
   hashed: the invocation has gone on with a snapshot without it *)
C24_Witness ==
    \E i \in Procs, p \in Paths :
        /\ pc[i] \notin {"idle", "hash"}
        /\ exitCode[i] # 1
        /\ p \in diffFiles[i]
        /\ isMatch(pat[i], p)
        /\ cur[i].fileHashes[p] = NoHash


(* ------------------------------------------------------------------------
   C25  No invocation holds the lock marker while any of its commands is
        running: an invocation owns the marker only inside the
        read-modify-write of the state file, and it has released the marker
        before its first command is started.
   ------------------------------------------------------------------------ *)
C25_NoMarkerWhileCommandsRun ==
    \A i \in Procs :
        lock = i =>
            /\ pc[i] \in {"read", "write", "writing", "release"}
            /\ \A c \in Cmds : cmdRes[i][c] = Idle

(* the commands of one invocation are running while another invocation is
   inside its own read-modify-write with the marker *)
C25_Witness ==
    \E i, j \in Procs :
        /\ i # j
        /\ pc[i] = "exec" /\ \E c \in Cmds : cmdRes[i][c] = Running
        /\ lock = j /\ pc[j] = "writing"


(* ------------------------------------------------------------------------
   C26  Once the state save of an invocation has completed, the next
        invocation on the same pattern, started after the first one has ended
        and finding the files as the first one hashed them, has an empty
        diff, starts no command and, its own save succeeding, exits 0; this
        holds when the first invocation was killed after its save, before or
        while its commands ran, and when its commands failed.
   ------------------------------------------------------------------------ *)
C26_SavedRunIsNotRepeated ==
    \A i, j \in Procs :
        (/\ i # j /\ pat[i] = pat[j]
         /\ i \in doneBefore[j]
         /\ saveRes[i] = "ok" /\ lock # i
         /\ pc[j] \notin {"idle", "hash", "load", "crashed"}
         /\ cur[j].fileHashes = cur[i].fileHashes)
            => /\ prev[j] = cur[i]
               /\ changed[j] = <<>>
               /\ \A c \in Cmds : cmdRes[j][c] = Idle
               /\ pc[j] # "exec"
               /\ (pc[j] = "done" /\ saveRes[j] = "ok") => exitCode[j] = 0

(* the first invocation found changes, saved, and was killed while its
   commands were running; the next one has exited 0 without a command *)
C26_Witness ==
    \E i, j \in Procs :
        /\ i # j /\ pat[i] = pat[j]
        /\ pc[i] = "crashed" /\ saveRes[i] = "ok" /\ lock # i
        /\ Len(changed[i]) > 0
        /\ \E c \in Cmds : cmdRes[i][c] = Running
        /\ i \in doneBefore[j]
        /\ cur[j].fileHashes = cur[i].fileHashes
        /\ pc[j] = "done" /\ saveRes[j] = "ok" /\ exitCode[j] = 0


(* ------------------------------------------------------------------------
   C27  If an invocation is killed while it holds the lock marker, the
        marker stays on disk for ever, and a saveState call of an invocation
        started afterwards never owns the marker and never writes the state
        file: unless open fails with another error, it gives up with the
        lock-timeout error, on its twentieth attempt.
   ------------------------------------------------------------------------ *)
C27_StaleMarkerBlocksSaves ==
    /\ [](\A i, j \in Procs :
            (pc[i] = "crashed" /\ lock = i /\ i \in doneBefore[j]) =>
                /\ pc[j] \notin {"read", "write", "writing", "release"}
                /\ saveRes[j] \in {"none", "timeout", "openerr"}
                /\ pc[j] \in {"saved", "exec", "done"} => saveRes[j] # "none"
                /\ pc[j] # "exec")
    /\ [][\A i \in Procs :
            (pc[i] = "crashed" /\ lock = i) =>
                /\ lock' = i
                /\ \A j \in Procs :
                        (saveRes[j] = "none" /\ saveRes'[j] = "timeout")
                            => attempt[j] = 20 - 1]_vars

(* the holder of the marker was killed in the middle of its write; an
   invocation started afterwards has given up on the lock and exited 1 *)
C27_Witness ==
    \E i, j \in Procs :
        /\ pc[i] = "crashed" /\ lock = i
        /\ i \in doneBefore[j]
        /\ pc[j] = "done" /\ saveRes[j] = "timeout" /\ exitCode[j] = 1


(* ------------------------------------------------------------------------
   C28  A loadState for a pattern that runs while the saveState of another
        invocation is in progress returns the snapshot stored for the
        pattern, as it was when that save began or as that save writes it,
        and never absent, when the pattern was stored when the save began.
   ------------------------------------------------------------------------ *)
C28_LoadDuringSaveFindsSnapshot ==
    [][\A i, j \in Procs :
        (/\ i # j
         /\ pc[i] \in {"read", "write", "writing", "release"}
         /\ atLock.kind = "object" /\ atLock.obj[pat[j]] # NoSnap
         /\ pc[j] = "load" /\ pc'[j] # "load")
            => /\ prev'[j] # NoSnap
               /\ \/ prev'[j] = atLock.obj[pat[j]]
                  \/ pc[i] # "read" /\ prev'[j] = toWrite[i].obj[pat[j]]]_vars


(* ------------------------------------------------------------------------
   C29  A saveState call that did not itself create the lock marker, because
        the marker existed or because open failed with another error, never
        removes it: the marker disappears only in the cleanup step of the
        call that created it, and no step replaces it by another marker.
   ------------------------------------------------------------------------ *)
C29_OnlyCreatorRemovesMarker ==
    [][\A i \in Procs :
        (lock = i /\ lock' # i) =>
            /\ lock' = NoProc
            /\ pc[i] = "release" /\ pc'[i] = "saved"
            /\ \A j \in Procs \ {i} : pc'[j] = pc[j] /\ saveRes'[j] = saveRes[j]]_vars

(* a call has given up after its retries and its invocation has exited; the
   marker of its creator, which is still inside its read-modify-write, is in
   place *)
C29_Witness ==
    \E i, j \in Procs :
        /\ i # j
        /\ lock = i /\ pc[i] \in {"read", "write", "writing"}
        /\ pc[j] = "done" /\ saveRes[j] = "timeout"


(* ------------------------------------------------------------------------
   C30  A first run in which no file matches the pattern stores a baseline
        with an empty hash map, and the next run for the pattern is a
        subsequent run, not another first run: it loads that baseline, logs
        no first-run notice, reports exactly the matching files that have
        appeared, and, its save succeeding, starts the commands if and only
        if there is one.
   ------------------------------------------------------------------------ *)
C30_EmptyBaselineIsABaseline ==
    \A i \in Procs :
        (prev[i] = NoSnap /\ cur[i].fileHashes = EmptyHashes /\ saveRes[i] = "ok") =>
            /\ pc[i] = "release" =>
                    (file.kind = "object" /\ file.obj[pat[i]] = cur[i]
                        /\ file.obj[pat[i]] # NoSnap)
            /\ \A j \in Procs :
                    (/\ j # i /\ pat[j] = pat[i]
                     /\ i \in doneBefore[j]
                     /\ pc[j] \notin {"idle", "hash", "load"})
                        => /\ prev[j] = cur[i]
                           /\ stderr[j] = <<>> \/ stderr[j][1] # "first run"
                           /\ {changed[j][k] : k \in DOMAIN changed[j]}
                                = {p \in Paths : cur[j].fileHashes[p] # NoHash}
                           /\ (pc[j] \in {"exec", "done"} /\ saveRes[j] = "ok") =>
                                ((\E c \in Cmds : cmdRes[j][c] # Idle)
                                    <=> cur[j].fileHashes # EmptyHashes)

(* the first run stored an empty baseline; a matching file has appeared
   since, and the next run reports it and has started the commands *)
C30_Witness ==
    \E i, j \in Procs :
        /\ i # j /\ pat[j] = pat[i]
        /\ prev[i] = NoSnap /\ cur[i].fileHashes = EmptyHashes /\ saveRes[i] = "ok"
        /\ i \in doneBefore[j]
        /\ prev[j] = cur[i]
        /\ Len(changed[j]) = 1
        /\ pc[j] = "exec" /\ \A c \in Cmds : cmdRes[j][c] = Running

====
